---- MODULE Spec2Model ----
(***************************************************************************)
(* SaaS KPI seed-data generators: customers -> subscriptions -> events,    *)
(* subscriptions -> invoices -> payments.  Every stage is a script that    *)
(* reads sheets of a workbook, builds its table in memory, checks it and   *)
(* replaces its own sheet.                                                 *)
(*                                                                         *)
(* Dates are day ordinals counted from EpochYear-01-01 (= 0); money is in  *)
(* cents (all amounts in the code are rounded to 2 decimals); percentages  *)
(* are whole percents, refund fractions are per mille.                     *)
(* A random draw is a choice among the extreme outcomes of the draw (the   *)
(* two ends of a range, the first and last label of positive weight); a    *)
(* signup date is one of SignupSamples evenly spaced days of its window.   *)
(* Columns that feed no date, amount or key (region, acquisition_channel,  *)
(* cac, payment_method) are not carried in the rows.                       *)
(***************************************************************************)
EXTENDS Integers, Sequences, FiniteSets, TLC

VARIABLES today, cfg, files, last

vars == <<today, cfg, files, last>>

----------------------------------------------------------------------------
(* Bounds of the exploration *)

SignupSamples == 2

MaxWeight == 2

----------------------------------------------------------------------------
(* Calendar: pandas Timestamp / Timedelta / DateOffset arithmetic *)

Years == 2024..2031

EpochYear == CHOOSE y \in Years : \A z \in Years : y <= z

LastYear == CHOOSE y \in Years : \A z \in Years : z <= y

IsLeap(y) == (y % 4 = 0 /\ y % 100 # 0) \/ (y % 400 = 0)

DaysInMonth(y, m) ==
  IF m = 2 THEN (IF IsLeap(y) THEN 29 ELSE 28)
  ELSE IF m \in {4, 6, 9, 11} THEN 30 ELSE 31

RECURSIVE DaysBeforeYear(_)
DaysBeforeYear(y) ==
  IF y <= EpochYear THEN 0
  ELSE DaysBeforeYear(y - 1) + (IF IsLeap(y - 1) THEN 366 ELSE 365)

RECURSIVE DaysBeforeMonth(_, _)
DaysBeforeMonth(y, m) ==
  IF m <= 1 THEN 0 ELSE DaysBeforeMonth(y, m - 1) + DaysInMonth(y, m - 1)

ToOrd(y, m, d) == DaysBeforeYear(y) + DaysBeforeMonth(y, m) + (d - 1)

MaxOrd == DaysBeforeYear(LastYear + 1) - 1

YearTable ==
  [n \in 0..MaxOrd |->
     CHOOSE y \in EpochYear..LastYear :
        DaysBeforeYear(y) <= n /\ n < DaysBeforeYear(y + 1)]

MonthTable ==
  [n \in 0..MaxOrd |->
     LET y == YearTable[n]
         r == n - DaysBeforeYear(y)
     IN  CHOOSE m \in 1..12 :
           DaysBeforeMonth(y, m) <= r /\ r < DaysBeforeMonth(y, m) + DaysInMonth(y, m)]

Year(n) == YearTable[n]

Month(n) == MonthTable[n]

Day(n) == n - DaysBeforeYear(Year(n)) - DaysBeforeMonth(Year(n), Month(n)) + 1

Min(a, b) == IF a <= b THEN a ELSE b

Max(a, b) == IF a >= b THEN a ELSE b

\* ts + pd.DateOffset(months=k): same day of month, clipped to the month's end
DateOffsetMonths(n, k) ==
  LET mi == (Year(n) * 12 + (Month(n) - 1)) + k
      y  == mi \div 12
      m  == (mi % 12) + 1
  IN  ToOrd(y, m, Min(Day(n), DaysInMonth(y, m)))

\* ts.replace(day=1)
ReplaceDay1(n) == n - (Day(n) - 1)

\* today.replace(day=1) - pd.offsets.Day(1)
EndOfPrevMonth(t) == ReplaceDay1(t) - 1

\* a missing end_date (None / NaT / empty cell)
NaT == -1

notna(x) == x # NaT

----------------------------------------------------------------------------
(* The random generator: np.random.Generator draws *)

\* n evenly spaced values of lo..hi, both ends included
Sample(lo, hi, n) ==
  IF hi <= lo THEN {lo}
  ELSE {lo + ((hi - lo) * k) \div (n - 1) : k \in 0..(n - 1)}

\* the extreme outcomes of a draw from lo..hi
EndPoints(lo, hi) == {lo, hi}

\* rng.integers(lo, hiExcl)
rng_integers(lo, hiExcl) == EndPoints(lo, hiExcl - 1)

\* rng.random() < p, p in percent: r is in [0, 1)
rng_random_lt(p) == {b \in BOOLEAN : (b => p > 0) /\ (~b => p < 100)}

\* rng.uniform(lo, hi)
rng_uniform(lo, hi) == EndPoints(lo, hi)

\* probs.sum() of a mix, a sequence of <<label, weight>>
RECURSIVE mix_sum(_)
mix_sum(mix) == IF mix = <<>> THEN 0 ELSE Head(mix)[2] + mix_sum(Tail(mix))

\* rng.choice(labels, p=probs / probs.sum()) raises ValueError: the quotients
\* are NaN or infinite when the sum is 0, and some quotient is negative when
\* a weight and the sum have opposite signs
mix_raises(mix) ==
  \/ mix_sum(mix) = 0
  \/ \E i \in 1..Len(mix) : mix[i][2] * mix_sum(mix) < 0

\* rng.choice(labels, p=probs / probs.sum()): only labels of positive
\* probability weight / sum can be drawn
choice_with_mix(mix) ==
  LET pos == SelectSeq(mix, LAMBDA e : e[2] * mix_sum(mix) > 0)
  IN  {pos[i][1] : i \in EndPoints(1, Len(pos))}

\* round(x, 2) of x = num / den cents, den > 0: nearest cent, ties to even
round2(num, den) ==
  LET q == num \div den
      r == num % den
  IN  IF 2 * r < den THEN q
      ELSE IF 2 * r > den THEN q + 1
      ELSE IF q % 2 = 0 THEN q ELSE q + 1

----------------------------------------------------------------------------
(* Configuration: the dataclasses of the five scripts *)

DATA == "../data/saas_kpi_data.xlsx"

SEEDS == "../data/saas_kpi_seeds.xlsx"

SEEDS_CWD == "saas_kpi_seeds.xlsx"

Paths == {DATA, SEEDS, SEEDS_CWD}

SheetNames == {"customers", "subscriptions", "events", "invoices", "payments"}

\* the shipped defaults, with the customer count scaled down
ShippedCfg ==
  [ name             |-> "shipped",
    customers_path   |-> DATA,
    subs_path        |-> SEEDS,
    events_path      |-> SEEDS_CWD,
    invoices_path    |-> SEEDS,
    payments_path    |-> DATA,
    num_customers    |-> 1,
    months_back      |-> 18,
    pct_reactivate   |-> 20,
    refund_rate      |-> 3,
    pct_fully_paid   |-> 85,
    pct_partial_paid |-> 0,
    pct_cash_refund  |-> 0 ]

\* one workbook for all stages, long signup window, every invoice paid
LongCfg ==
  [ name             |-> "long",
    customers_path   |-> SEEDS,
    subs_path        |-> SEEDS,
    events_path      |-> SEEDS,
    invoices_path    |-> SEEDS,
    payments_path    |-> SEEDS,
    num_customers    |-> 1,
    months_back      |-> 18,
    pct_reactivate   |-> 20,
    refund_rate      |-> 3,
    pct_fully_paid   |-> 100,
    pct_partial_paid |-> 0,
    pct_cash_refund  |-> 100 ]

\* one workbook for all stages, signups of the last month only, no
\* reactivation, every invoice credited, all payment outcomes
ShortCfg ==
  [ name             |-> "short",
    customers_path   |-> SEEDS,
    subs_path        |-> SEEDS,
    events_path      |-> SEEDS,
    invoices_path    |-> SEEDS,
    payments_path    |-> SEEDS,
    num_customers    |-> 1,
    months_back      |-> 1,
    pct_reactivate   |-> 0,
    refund_rate      |-> 100,
    pct_fully_paid   |-> 85,
    pct_partial_paid |-> 10,
    pct_cash_refund  |-> 50 ]

Configs == {ShippedCfg, LongCfg, ShortCfg}

\* pd.Timestamp.today().normalize()
TodayDraws == {ToOrd(2026, 3, 1), ToOrd(2026, 11, 2)}

segment_mix == << <<"SMB", 65>>, <<"Mid", 28>>, <<"Enterprise", 7>> >>

min_months == 3

max_months == 18

start_delay_days_min == 0

start_delay_days_max == 10

reactivation_gap_min == 15

reactivation_gap_max == 60

active_bias == 55

active_bias_2 == 65

price_noise_pct == 0

price_floor == 500

plan_prices(plan) ==
  CASE plan = "Starter"    -> <<2000, 2000>>
    [] plan = "Pro"        -> <<5000, 5000>>
    [] plan = "Business"   -> <<15000, 15000>>
    [] plan = "Enterprise" -> <<50000, 50000>>

segment_plan_mix(segment) ==
  CASE segment = "SMB" ->
         << <<"Starter", 55>>, <<"Pro", 40>>, <<"Business", 5>>, <<"Enterprise", 0>> >>
    [] segment = "Mid" ->
         << <<"Starter", 10>>, <<"Pro", 55>>, <<"Business", 30>>, <<"Enterprise", 5>> >>
    [] segment = "Enterprise" ->
         << <<"Starter", 0>>, <<"Pro", 15>>, <<"Business", 45>>, <<"Enterprise", 40>> >>
    [] OTHER ->
         << <<"Starter", 55>>, <<"Pro", 40>>, <<"Business", 5>>, <<"Enterprise", 0>> >>

pct_annual_prepay == 8

refund_pct_lo == 50

refund_pct_hi == 200

lag_min_days == 30

lag_max_days == 30

partial_parts_probs == << <<2, 75>>, <<3, 25>> >>

----------------------------------------------------------------------------
(* Tables and workbooks *)

NoSheet == [present |-> FALSE, rows |-> <<>>]

Sheet(table) == [present |-> TRUE, rows |-> table]

NoFile == [exists |-> FALSE, sheets |-> [s \in SheetNames |-> NoSheet]]

EmptyWorkbook == [exists |-> TRUE, sheets |-> [s \in SheetNames |-> NoSheet]]

\* os.path.exists(path)
path_exists(path) == files[path].exists

has_sheet(path, sheet) == path_exists(path) /\ files[path].sheets[sheet].present

\* pd.read_excel(path, sheet_name=sheet)
read_excel(path, sheet) == files[path].sheets[sheet].rows

\* lexicographic order on equally long tuples of integers
RECURSIVE LexLess(_, _)
LexLess(a, b) ==
  IF a = <<>> THEN FALSE
  ELSE IF Head(a) # Head(b) THEN Head(a) < Head(b)
  ELSE LexLess(Tail(a), Tail(b))

RECURSIVE InsertSorted(_, _)
InsertSorted(s, x) ==
  IF s = <<>> THEN <<x>>
  ELSE IF LexLess(x[1], Head(s)[1]) THEN <<x>> \o s
  ELSE <<Head(s)>> \o InsertSorted(Tail(s), x)

RECURSIVE SortPairs(_)
SortPairs(s) ==
  IF s = <<>> THEN <<>>
  ELSE InsertSorted(SortPairs(SubSeq(s, 1, Len(s) - 1)), s[Len(s)])

\* df.sort_values(columns): keyed is the sequence of <<key tuple, row>>;
\* rows of equal key keep their order
sort_values(keyed) ==
  LET srt == SortPairs(keyed) IN [i \in 1..Len(srt) |-> srt[i][2]]

RECURSIVE Flatten(_)
Flatten(ss) == IF ss = <<>> THEN <<>> ELSE Head(ss) \o Flatten(Tail(ss))

\* all sequences that pick, row by row, one element of choices[i]
RECURSIVE PickEach(_)
PickEach(choices) ==
  IF choices = <<>> THEN {<<>>}
  ELSE {<<h>> \o t : h \in Head(choices), t \in PickEach(Tail(choices))}

is_unique(keys) == \A i, j \in 1..Len(keys) : keys[i] = keys[j] => i = j

----------------------------------------------------------------------------
(* Stage runs *)

Stages == {"customers", "subscriptions", "events", "invoices", "payments"}

\* the sheets computed, directly or not, from a sheet
Downstream(sheet) ==
  CASE sheet = "customers"     -> {"subscriptions", "events", "invoices", "payments"}
    [] sheet = "subscriptions" -> {"events", "invoices", "payments"}
    [] sheet = "invoices"      -> {"payments"}
    [] OTHER                   -> {}

Unconsumed(sheet) == \A p \in Paths, s \in Downstream(sheet) : ~has_sheet(p, s)

\* exploration bound: a stage is run or re-run only while nothing computed
\* from its sheet has been written, and a sheet nothing is computed from is
\* written once
Runnable(sheet, path) ==
  /\ Unconsumed(sheet)
  /\ Downstream(sheet) = {} => ~has_sheet(path, sheet)

\* the workbook_path / output_path of a stage's configuration
StagePath(stage) ==
  CASE stage = "customers"     -> cfg.customers_path
    [] stage = "subscriptions" -> cfg.subs_path
    [] stage = "events"        -> cfg.events_path
    [] stage = "invoices"      -> cfg.invoices_path
    [] stage = "payments"      -> cfg.payments_path

\* the sheets a stage reads
Upstream(stage) ==
  CASE stage = "customers"     -> {}
    [] stage = "subscriptions" -> {"customers"}
    [] stage = "events"        -> {"customers", "subscriptions"}
    [] stage = "invoices"      -> {"customers", "subscriptions"}
    [] stage = "payments"      -> {"invoices"}

\* the script that raises after it has emptied the containers
Raise_after_truncate(stage, exc) ==
  /\ last' = [stage |-> stage, result |-> exc, replaced |-> FALSE]
  /\ files' = [p \in Paths |-> NoFile]
  /\ UNCHANGED <<today, cfg>>

\* the script ends by raising: nothing is written
Raise(stage, exc) ==
  /\ last' = [stage |-> stage, result |-> exc, replaced |-> FALSE]
  /\ UNCHANGED <<today, cfg, files>>

\* the sheet written after the rows it replaces
replace_sheet_append(path, sheet, table) ==
  [files EXCEPT ![path].sheets[sheet] = Sheet(files[path].sheets[sheet].rows \o table)]

\* with pd.ExcelWriter(path, mode="a", if_sheet_exists="replace"): df.to_excel(...)
replace_sheet(path, sheet, table) ==
  [files EXCEPT ![path].sheets[sheet] = Sheet(table)]

\* write_or_update_sheet: replace the sheet, or create the workbook with it
write_or_update_sheet(table, path, sheet) ==
  IF path_exists(path)
  THEN replace_sheet(path, sheet, table)
  ELSE [files EXCEPT ![path] = [EmptyWorkbook EXCEPT !.sheets[sheet] = Sheet(table)]]

\* the script ends normally; `replaced` records whether its sheet existed
Done(stage, newFiles) ==
  /\ files' = newFiles
  /\ last' = [stage |-> stage, result |-> "ok",
              replaced |-> has_sheet(StagePath(stage), stage)]
  /\ UNCHANGED <<today, cfg>>

----------------------------------------------------------------------------
(* 01_customers.py *)

\* the days a signup date is drawn from: months_back months ending with the
\* last day of the previous month
generate_signup_dates(t, months_back) ==
  LET end_month   == EndOfPrevMonth(t)
      start_month == ReplaceDay1(DateOffsetMonths(end_month, -(months_back - 1)))
  IN  Sample(start_month, end_month, SignupSamples)

\* cfg.segment_mix: the shipped mix unless the configuration sets another
MixOf(c) == IF "segment_mix" \in DOMAIN c THEN c.segment_mix ELSE segment_mix

generate_customers_df(c, t) ==
  PickEach([i \in 1..c.num_customers |->
     { [customer_id |-> i, signup_date |-> d, segment |-> g] :
         d \in generate_signup_dates(t, c.months_back),
         g \in choice_with_mix(MixOf(c)) }])

customers_checks(c, df, t) ==
  /\ Len(df) = c.num_customers
  /\ is_unique([i \in 1..Len(df) |-> df[i].customer_id])
  /\ \A i \in 1..Len(df) : df[i].signup_date <= t

\* _choice_with_mix raises inside generate_customers_df, after the signup
\* dates were drawn; `drawn` records that draws were made
RaiseInChoice(stage) ==
  /\ last' = [stage |-> stage, result |-> "ValueError", replaced |-> FALSE,
              drawn |-> generate_signup_dates(today, cfg.months_back) # {}]
  /\ UNCHANGED <<today, cfg, files>>

main_customers ==
  /\ Runnable("customers", cfg.customers_path)
  /\ IF mix_raises(MixOf(cfg)) THEN RaiseInChoice("customers")
     ELSE \E df \in generate_customers_df(cfg, today) :
            IF customers_checks(cfg, df, today)
            THEN Done("customers", write_or_update_sheet(df, cfg.customers_path, "customers"))
            ELSE Raise("customers", "AssertionError")

----------------------------------------------------------------------------
(* 02_subscriptions.py *)

sample_price_mrr(plan) ==
  { round2(Max(price_floor * 100, (base * 100) + (base * noise)), 100) :
      base  \in rng_uniform(plan_prices(plan)[1], plan_prices(plan)[2]),
      noise \in rng_uniform(-price_noise_pct, price_noise_pct) }

status_of(end_date) == IF end_date = NaT THEN "active" ELSE "canceled"

\* the draws of one period: length, plan, price, and the active draw
period_draws(mix, bias) ==
  UNION { { [months |-> m, plan |-> p, price |-> pr, active |-> a] :
              pr \in sample_price_mrr(p) } :
          m \in rng_integers(min_months, max_months + 1),
          p \in choice_with_mix(mix),
          a \in rng_random_lt(bias) }

\* computed end of a period: (start + DateOffset(months)) - 1 day
computed_end(start, months) == DateOffsetMonths(start, months) - 1

\* the draw alone decides, whatever the computed end
still_active_draw_only(d, end, t) == d.active

\* rng.random() < bias and end > today
still_active(d, end, t) == d.active /\ end > t

\* one period row; it is active only if the draw says so and its computed
\* end is after today
period_row(cid, start, d, t) ==
  LET end      == computed_end(start, d.months)
      end_date == IF still_active(d, end, t) THEN NaT ELSE end
  IN  [customer_id |-> cid, start_date |-> start, end_date |-> end_date,
       plan |-> d.plan, price_mrr |-> d.price, status |-> status_of(end_date)]

\* the reactivation draw made whatever became of the first period
wants_second_draws_any(first_still_active, c) == rng_random_lt(c.pct_reactivate)

\* wants_second = (not still_active) and (rng.random() < pct_reactivate)
wants_second_draws(first_still_active, c) ==
  IF first_still_active THEN {FALSE} ELSE rng_random_lt(c.pct_reactivate)

\* the reactivation period started on the day the first one ends
start_2_nogap(end_1, gap_days) == end_1

\* start of the reactivation period
start_2(end_1, gap_days) == end_1 + gap_days

\* _gen_periods_for_customer over every outcome of its draws
gen_periods_for_customer(row, c, t) ==
  LET mix == segment_plan_mix(row.segment)
  IN  UNION {
        LET start_1 == row.signup_date + delay
            end_1   == computed_end(start_1, d1.months)
            first   == period_row(row.customer_id, start_1, d1, t)
        IN  UNION {
                   IF ~wants_second THEN {<<first>>}
                   ELSE { <<first, period_row(row.customer_id,
                                              start_2(end_1, gap_days), d2, t)>> :
                            gap_days \in rng_integers(reactivation_gap_min,
                                                      reactivation_gap_max + 1),
                            d2 \in period_draws(mix, active_bias_2) } :
                   wants_second \in
                     wants_second_draws(still_active(d1, end_1, t), c) } :
        delay \in rng_integers(start_delay_days_min, start_delay_days_max + 1),
        d1 \in period_draws(mix, active_bias) }

\* _validate_no_overlap of one customer's rows, walked in start order
RECURSIVE no_overlap_from(_, _)
no_overlap_from(g, prev_end) ==
  IF g = <<>> THEN TRUE
  ELSE LET s == Head(g).start_date
           e == Head(g).end_date
       IN  IF prev_end # NaT /\ s <= prev_end THEN FALSE
           ELSE no_overlap_from(Tail(g), IF e # NaT THEN e ELSE prev_end)

rows_of(table, cid) == SelectSeq(table, LAMBDA r : r.customer_id = cid)

customer_ids(table) == {table[i].customer_id : i \in 1..Len(table)}

validate_no_overlap(df) ==
  \A cid \in customer_ids(df) :
    LET g == rows_of(df, cid)
    IN  no_overlap_from(
          sort_values([i \in 1..Len(g) |-> << <<g[i].start_date>>, g[i] >>]), NaT)

with_ids(table, field) ==
  [i \in 1..Len(table) |-> [k \in {field} |-> i] @@ table[i]]

subs_table(all_periods) ==
  with_ids(sort_values([i \in 1..Len(all_periods) |->
              << <<all_periods[i].customer_id, all_periods[i].start_date>>,
                 all_periods[i] >>]),
           "subscription_id")

signup_of(customers, cid) ==
  (CHOOSE i \in 1..Len(customers) : customers[i].customer_id = cid) 

subs_checks(subs, customers) ==
  /\ is_unique([i \in 1..Len(subs) |-> subs[i].subscription_id])
  /\ customer_ids(subs) \subseteq customer_ids(customers)
  /\ \A i \in 1..Len(subs) :
       subs[i].start_date >= customers[signup_of(customers, subs[i].customer_id)].signup_date
  /\ \A i \in 1..Len(subs) :
       notna(subs[i].end_date) => subs[i].end_date > subs[i].start_date
  /\ validate_no_overlap(subs)

main_subscriptions ==
  /\ Runnable("subscriptions", cfg.subs_path)
  /\ IF ~path_exists(cfg.subs_path) THEN Raise("subscriptions", "FileNotFoundError")
     ELSE IF ~has_sheet(cfg.subs_path, "customers") THEN Raise("subscriptions", "ValueError")
     ELSE LET customers == read_excel(cfg.subs_path, "customers")
          IN  IF customers = <<>> THEN Raise("subscriptions", "ValueError")
              ELSE \E per \in PickEach([i \in 1..Len(customers) |->
                                   gen_periods_for_customer(customers[i], cfg, today)]) :
                     LET subs == subs_table(Flatten(per))
                     IN  IF subs_checks(subs, customers)
                         THEN Done("subscriptions",
                                   replace_sheet(cfg.subs_path, "subscriptions", subs))
                         ELSE Raise("subscriptions", "AssertionError")

----------------------------------------------------------------------------
(* 03_events.py *)

None == "None"

\* _append_event: one event row, delta rounded to cents
append_event(out, cid, dt, etype, plan_from, plan_to, delta) ==
  Append(out, [customer_id |-> cid, event_date |-> dt, event_type |-> etype,
               plan_from |-> plan_from, plan_to |-> plan_to,
               delta_mrr |-> round2(delta, 1)])

\* the churn event dated at the start of the period
churn_of_at_start(out, per) ==
  IF notna(per.end_date)
  THEN append_event(out, per.customer_id, per.start_date, "churn",
                    per.plan, None, -per.price_mrr)
  ELSE out

\* the churn event with the sign of its delta lost
churn_of_positive(out, per) ==
  IF notna(per.end_date)
  THEN append_event(out, per.customer_id, per.end_date, "churn",
                    per.plan, None, per.price_mrr)
  ELSE out

\* the churn event of a period that has an end date
churn_of(out, per) ==
  IF notna(per.end_date)
  THEN append_event(out, per.customer_id, per.end_date, "churn",
                    per.plan, None, -per.price_mrr)
  ELSE out

\* a change of plan at equal price booked as an upgrade
start_event_of_by_plan(out, prev, cur) ==
  LET delta == cur.price_mrr - prev.price_mrr
  IN  IF prev.end_date # NaT /\ cur.start_date > prev.end_date
      THEN append_event(out, cur.customer_id, cur.start_date, "reactivation",
                        None, cur.plan, cur.price_mrr)
      ELSE IF delta > 0 \/ (delta = 0 /\ cur.plan # prev.plan)
      THEN append_event(out, cur.customer_id, cur.start_date, "upgrade",
                        prev.plan, cur.plan, delta)
      ELSE IF delta < 0
      THEN append_event(out, cur.customer_id, cur.start_date, "downgrade",
                        prev.plan, cur.plan, delta)
      ELSE out

\* the gap after an ended period not looked at: prices alone decide
start_event_of_price_only(out, prev, cur) ==
  LET delta == cur.price_mrr - prev.price_mrr
  IN  IF delta > 0
      THEN append_event(out, cur.customer_id, cur.start_date, "upgrade",
                        prev.plan, cur.plan, delta)
      ELSE IF delta < 0
      THEN append_event(out, cur.customer_id, cur.start_date, "downgrade",
                        prev.plan, cur.plan, delta)
      ELSE out

\* a reactivation booked as a price change
start_event_of_as_change(out, prev, cur) ==
  LET delta == cur.price_mrr - prev.price_mrr
  IN  IF prev.end_date # NaT /\ cur.start_date > prev.end_date
      THEN append_event(out, cur.customer_id, cur.start_date, "reactivation",
                        None, cur.plan, delta)
      ELSE IF delta > 0
      THEN append_event(out, cur.customer_id, cur.start_date, "upgrade",
                        prev.plan, cur.plan, delta)
      ELSE IF delta < 0
      THEN append_event(out, cur.customer_id, cur.start_date, "downgrade",
                        prev.plan, cur.plan, delta)
      ELSE out

\* the start-side event of period cur that follows period prev
start_event_of(out, prev, cur) ==
  LET prev_end  == prev.end_date
      cur_start == cur.start_date
      delta     == cur.price_mrr - prev.price_mrr
  IN  IF prev_end # NaT /\ cur_start > prev_end
      THEN append_event(out, cur.customer_id, cur_start, "reactivation",
                        None, cur.plan, cur.price_mrr)
      ELSE IF delta > 0
      THEN append_event(out, cur.customer_id, cur_start, "upgrade",
                        prev.plan, cur.plan, delta)
      ELSE IF delta < 0
      THEN append_event(out, cur.customer_id, cur_start, "downgrade",
                        prev.plan, cur.plan, delta)
      ELSE out

\* the loop over the periods after the first
RECURSIVE subsequent_events(_, _, _)
subsequent_events(out, s, i) ==
  IF i > Len(s) THEN out
  ELSE subsequent_events(churn_of(start_event_of(out, s[i - 1], s[i]), s[i]), s, i + 1)

\* _build_events_for_customer
build_events_for_customer(subs_cust) ==
  LET s == sort_values([i \in 1..Len(subs_cust) |->
                          << <<subs_cust[i].start_date>>, subs_cust[i] >>])
  IN  IF s = <<>> THEN <<>>
      ELSE LET first == s[1]
               new   == append_event(<<>>, first.customer_id, first.start_date,
                                     "new", None, first.plan, first.price_mrr)
           IN  subsequent_events(churn_of(new, first), s, 2)

\* the keys of a groupby("customer_id"), in increasing order
RECURSIVE SetToSortedSeq(_)
SetToSortedSeq(S) ==
  IF S = {} THEN <<>>
  ELSE LET m == CHOOSE x \in S : \A y \in S : x <= y
       IN  <<m>> \o SetToSortedSeq(S \ {m})

events_table(subs) ==
  LET cids == SetToSortedSeq(customer_ids(subs))
      all_events == Flatten([k \in 1..Len(cids) |->
                               build_events_for_customer(rows_of(subs, cids[k]))])
  IN  with_ids(sort_values([i \in 1..Len(all_events) |->
                  << <<all_events[i].customer_id, all_events[i].event_date>>,
                     all_events[i] >>]),
               "event_id")

\* g["event_date"].is_monotonic_increasing
is_monotonic_increasing(g) ==
  \A i \in 1..(Len(g) - 1) : g[i].event_date <= g[i + 1].event_date

\* _rolling_ok: mrr starts at 0, never below -1e-6 after any event
RECURSIVE rolling_ok(_, _)
rolling_ok(g, mrr) ==
  IF g = <<>> THEN TRUE
  ELSE LET m == mrr + Head(g).delta_mrr
       IN  IF m < 0 THEN FALSE ELSE rolling_ok(Tail(g), m)

events_checks(events, customers) ==
  /\ is_unique([i \in 1..Len(events) |-> events[i].event_id])
  /\ customer_ids(events) \subseteq customer_ids(customers)
  /\ \A i \in 1..Len(events) : notna(events[i].event_date)
  /\ \A cid \in customer_ids(events) : is_monotonic_increasing(rows_of(events, cid))
  /\ \A cid \in customer_ids(events) : rolling_ok(rows_of(events, cid), 0)

main_events ==
  /\ Runnable("events", cfg.events_path)
  /\ IF ~path_exists(cfg.events_path) THEN Raise("events", "FileNotFoundError")
     ELSE IF ~has_sheet(cfg.events_path, "customers")
             \/ ~has_sheet(cfg.events_path, "subscriptions")
     THEN Raise("events", "ValueError")
     ELSE LET customers == read_excel(cfg.events_path, "customers")
              subs      == read_excel(cfg.events_path, "subscriptions")
          IN  IF customers = <<>> \/ subs = <<>> THEN Raise("events", "ValueError")
              ELSE LET events == events_table(subs)
                   IN  IF events_checks(events, customers)
                       THEN Done("events",
                                 replace_sheet(cfg.events_path, "events", events))
                       ELSE Raise("events", "AssertionError")

----------------------------------------------------------------------------
(* 04_invoices.py *)

\* _month_range: the month starts from start's month to end's month
RECURSIVE month_range_from(_, _)
month_range_from(cur, end_m) ==
  IF cur <= end_m THEN <<cur>> \o month_range_from(DateOffsetMonths(cur, 1), end_m)
  ELSE <<>>

month_range(start, end) == month_range_from(ReplaceDay1(start), ReplaceDay1(end))

\* _coverage_window_for_month
coverage_window_for_month(month_start) ==
  <<month_start, DateOffsetMonths(month_start, 1) - 1>>

\* _bounded
bounded(a, lo, hi) == Max(lo, Min(a, hi))

\* the billable window not cut at the end of the previous month
billable_end_unclipped(r, end_of_prev_month) ==
  IF notna(r.end_date) THEN r.end_date ELSE end_of_prev_month

\* end of the billable window of a period
billable_end(r, end_of_prev_month) ==
  LET raw_end == IF notna(r.end_date) THEN r.end_date ELSE end_of_prev_month
  IN  Min(raw_end, end_of_prev_month)

\* the months between the two dates, the end month not counted
months_covered_exclusive(period_start, period_end) ==
  Max(1, (Year(period_end) - Year(period_start)) * 12
         + (Month(period_end) - Month(period_start)))

\* number of monthly prices billed by an annual invoice
months_covered(period_start, period_end) ==
  Max(1, (Year(period_end) - Year(period_start)) * 12
         + (Month(period_end) - Month(period_start)) + 1)

annual_rows(r, start, end) ==
  LET covered_end  == Min(DateOffsetMonths(start, 12) - 1, end)
      period_start == start
      period_end   == covered_end
      amount       == round2(r.price_mrr * months_covered(period_start, period_end), 1)
  IN  << [customer_id |-> r.customer_id, invoice_date |-> period_start,
          amount |-> amount, is_refund |-> FALSE,
          period_start |-> period_start, period_end |-> period_end] >>

\* the monthly invoice covering its whole calendar month
monthly_row_unclipped(r, start, end, m0) ==
  LET cov == coverage_window_for_month(m0)
  IN  << [customer_id |-> r.customer_id, invoice_date |-> cov[1],
          amount |-> round2(r.price_mrr, 1), is_refund |-> FALSE,
          period_start |-> cov[1], period_end |-> cov[2]] >>

monthly_row(r, start, end, m0) ==
  LET cov          == coverage_window_for_month(m0)
      period_start == bounded(cov[1], start, end)
      period_end   == bounded(cov[2], start, end)
  IN  IF period_end < period_start THEN <<>>
      ELSE << [customer_id |-> r.customer_id, invoice_date |-> period_start,
               amount |-> round2(r.price_mrr, 1), is_refund |-> FALSE,
               period_start |-> period_start, period_end |-> period_end] >>

monthly_rows(r, start, end) ==
  LET ms == month_range(start, end)
  IN  Flatten([k \in 1..Len(ms) |-> monthly_row(r, start, end, ms[k])])

\* the standard invoices of one period, for each outcome of the cadence draw
period_invoices(r, end_of_prev_month) ==
  LET start == r.start_date
      end   == billable_end(r, end_of_prev_month)
  IN  IF end < start THEN {<<>>}
      ELSE { IF is_annual THEN annual_rows(r, start, end)
                          ELSE monthly_rows(r, start, end) :
             is_annual \in rng_random_lt(pct_annual_prepay) }

\* int(len(invoices) * refund_rate)
n_refunds(len, refund_rate) == (len * refund_rate) \div 100

\* the increasing sequences of k indexes out of lo..hi
RECURSIVE Combinations(_, _, _)
Combinations(lo, hi, k) ==
  IF k = 0 THEN {<<>>}
  ELSE IF hi - lo + 1 < k THEN {}
  ELSE {<<lo>> \o c : c \in Combinations(lo + 1, hi, k - 1)}
       \cup Combinations(lo + 1, hi, k)

\* the credit with its sign lost
credit_amount_positive(base_amount, pct) == round2(base_amount * pct, 1000)

\* round(-base_amount * pct, 2), pct per mille
credit_amount(base_amount, pct) == round2(-(base_amount * pct), 1000)

refund_row(orig, pct) ==
  [customer_id |-> orig.customer_id, invoice_date |-> orig.invoice_date,
   amount |-> credit_amount(orig.amount, pct), is_refund |-> TRUE,
   period_start |-> orig.period_start, period_end |-> orig.period_end]

\* the credit memos appended for each outcome of the refund draws
refund_rows(invoices, refund_rate) ==
  LET n == n_refunds(Len(invoices), refund_rate)
  IN  IF n > 0 /\ invoices # <<>>
      THEN UNION { PickEach([k \in 1..n |->
                      { refund_row(invoices[idx[k]], pct) :
                          pct \in rng_uniform(refund_pct_lo, refund_pct_hi) }]) :
                   idx \in Combinations(1, Len(invoices), n) }
      ELSE {<<>>}

invoices_table(rows) ==
  with_ids(sort_values([i \in 1..Len(rows) |->
              << <<rows[i].customer_id, rows[i].invoice_date, rows[i].amount>>,
                 rows[i] >>]),
           "invoice_id")

invoices_checks(invoices, customers) ==
  /\ is_unique([i \in 1..Len(invoices) |-> invoices[i].invoice_id])
  /\ customer_ids(invoices) \subseteq customer_ids(customers)
  /\ \A i \in 1..Len(invoices) : invoices[i].amount # 0
  /\ \A i \in 1..Len(invoices) : notna(invoices[i].invoice_date)

main_invoices ==
  /\ Runnable("invoices", cfg.invoices_path)
  /\ IF ~path_exists(cfg.invoices_path) THEN Raise("invoices", "FileNotFoundError")
     ELSE IF ~has_sheet(cfg.invoices_path, "customers")
             \/ ~has_sheet(cfg.invoices_path, "subscriptions")
     THEN Raise("invoices", "ValueError")
     ELSE LET customers == read_excel(cfg.invoices_path, "customers")
              subs      == read_excel(cfg.invoices_path, "subscriptions")
              cutoff    == EndOfPrevMonth(today)
          IN  IF customers = <<>> \/ subs = <<>> THEN Raise("invoices", "ValueError")
              ELSE \E per \in PickEach([i \in 1..Len(subs) |->
                                          period_invoices(subs[i], cutoff)]) :
                   \E refunds \in refund_rows(Flatten(per), cfg.refund_rate) :
                     LET rows     == Flatten(per) \o refunds
                         invoices == invoices_table(rows)
                     IN  IF rows = <<>> THEN Raise("invoices", "KeyError")
                         ELSE IF invoices_checks(invoices, customers)
                         THEN Done("invoices",
                                   replace_sheet(cfg.invoices_path, "invoices", invoices))
                         ELSE Raise("invoices", "AssertionError")

----------------------------------------------------------------------------
(* 05_payments.py *)

RECURSIVE SeqSum(_)
SeqSum(s) == IF s = <<>> THEN 0 ELSE Head(s) + SeqSum(Tail(s))

\* exploration bound: the grid the weights of a split are sampled on, in
\* shares; 1..MaxWeight unless the run is explored on another grid
SharesOf(c) == IF "weight_shares" \in DOMAIN c THEN c.weight_shares ELSE 1..MaxWeight

\* weights = rng.random(parts_n): every weight lies in [0, 1); weights that
\* are all 0.0 are left out (the normalisation divides by their sum)
weight_draws(parts_n, shares) ==
  {w \in [1..parts_n -> shares] : SeqSum(w) > 0}

\* the installments without the drift correction
partial_parts_nodrift(amt, weights) ==
  [i \in 1..Len(weights) |-> round2(amt * weights[i], SeqSum(weights))]

\* the installments of a partial payment: proportional parts rounded to
\* cents, the rounding drift added to the last part
partial_parts(amt, weights) ==
  LET n     == Len(weights)
      total == SeqSum(weights)
      parts == [i \in 1..n |-> round2(amt * weights[i], total)]
      drift == round2(amt - SeqSum(parts), 1)
  IN  [parts EXCEPT ![n] = round2(parts[n] + drift, 1)]

\* the amounts paid on a positive invoice, for each outcome of the draws
payment_parts(amt, c) ==
  (IF c.pct_fully_paid > 0 THEN {<<amt>>} ELSE {})
  \cup (IF c.pct_partial_paid > 0 /\ c.pct_fully_paid < 100
        THEN UNION { { partial_parts(amt, w) : w \in weight_draws(parts_n, SharesOf(c)) } :
                     parts_n \in choice_with_mix(partial_parts_probs) }
        ELSE {})
  \cup (IF c.pct_fully_paid + c.pct_partial_paid < 100 THEN {<<>>} ELSE {})

\* the lag subtracted instead of added
pay_date_before(invoice_date, lag_days, t) == Min(invoice_date - lag_days, t)

\* the lag left out
pay_date_nolag(invoice_date, lag_days, t) == Min(invoice_date, t)

\* min(invoice_date + lag_days, today)
pay_date(invoice_date, lag_days, t) == Min(invoice_date + lag_days, t)

payment_row(inv, p_amt, lag_days, t) ==
  [invoice_id |-> inv.invoice_id,
   payment_date |-> pay_date(inv.invoice_date, lag_days, t),
   amount |-> round2(p_amt, 1)]

\* _emit_payments_for_positive_invoice over every outcome of its draws
emit_payments_for_positive_invoice(inv, c, t) ==
  UNION { PickEach([k \in 1..Len(parts) |->
             { payment_row(inv, parts[k], lag_days, t) :
                 lag_days \in rng_integers(lag_min_days, lag_max_days + 1) }]) :
          parts \in payment_parts(inv.amount, c) }

\* _emit_payments_for_negative_invoice over every outcome of its draws
emit_payments_for_negative_invoice(inv, c, t) ==
  UNION { IF cash_refund
          THEN { <<payment_row(inv, inv.amount, lag_days, t)>> :
                   lag_days \in rng_integers(lag_min_days, lag_max_days + 1) }
          ELSE {<<>>} :
          cash_refund \in rng_random_lt(c.pct_cash_refund) }

payments_table(rows) ==
  with_ids(sort_values([i \in 1..Len(rows) |->
              << <<rows[i].invoice_id, rows[i].payment_date>>, rows[i] >>]),
           "payment_id")

invoice_ids(table) == {table[i].invoice_id : i \in 1..Len(table)}

\* amounts of the payments of one invoice
paid_amounts(payments, invoice_id) ==
  LET ps == SelectSeq(payments, LAMBDA r : r.invoice_id = invoice_id)
  IN  [i \in 1..Len(ps) |-> ps[i].amount]

paid_sum(payments, invoice_id) == SeqSum(paid_amounts(payments, invoice_id))

payments_checks(payments, invoices, t) ==
  /\ is_unique([i \in 1..Len(payments) |-> payments[i].payment_id])
  /\ invoice_ids(payments) \subseteq invoice_ids(invoices)
  /\ \A i \in 1..Len(payments) : notna(payments[i].payment_date)
  /\ \A i \in 1..Len(payments) : payments[i].payment_date <= t
  /\ \A i \in 1..Len(invoices) :
       (invoices[i].invoice_id \in invoice_ids(payments) /\ invoices[i].amount > 0)
         => ~(paid_sum(payments, invoices[i].invoice_id) > invoices[i].amount + 1)

main_payments ==
  /\ Runnable("payments", cfg.payments_path)
  /\ IF ~path_exists(cfg.payments_path) THEN Raise("payments", "FileNotFoundError")
     ELSE IF ~has_sheet(cfg.payments_path, "invoices") THEN Raise("payments", "ValueError")
     ELSE LET invoices == read_excel(cfg.payments_path, "invoices")
              pos_inv  == SelectSeq(invoices, LAMBDA r : r.amount > 0)
              neg_inv  == SelectSeq(invoices, LAMBDA r : r.amount < 0)
          IN  IF invoices = <<>> THEN Raise("payments", "ValueError")
              ELSE \E pos \in PickEach([i \in 1..Len(pos_inv) |->
                          emit_payments_for_positive_invoice(pos_inv[i], cfg, today)]) :
                   \E neg \in PickEach([i \in 1..Len(neg_inv) |->
                          emit_payments_for_negative_invoice(neg_inv[i], cfg, today)]) :
                     LET rows     == Flatten(pos) \o Flatten(neg)
                         payments == payments_table(rows)
                     IN  IF rows = <<>> THEN Raise("payments", "KeyError")
                         ELSE IF payments_checks(payments, invoices, today)
                         THEN Done("payments",
                                   replace_sheet(cfg.payments_path, "payments", payments))
                         ELSE Raise("payments", "AssertionError")

----------------------------------------------------------------------------

Init ==
  /\ today \in TodayDraws
  /\ cfg \in Configs
  /\ files = [p \in Paths |-> NoFile]
  /\ last = [stage |-> "none", result |-> "none", replaced |-> FALSE]

Next ==
  \/ main_customers
  \/ main_subscriptions
  \/ main_events
  \/ main_invoices
  \/ main_payments

Spec == Init /\ [][Next]_vars

----------------------------------------------------------------------------
(* Seeded runs: every stage starts with rng = np.random.default_rng(seed), *)
(* so the seed fixes the outcome of each draw of a run.  A seed is given   *)
(* by the raw outcomes it produces: an index for a choice, a day count or  *)
(* a month count for an integer draw, a percentage u for rng.random().     *)

Seeds ==
  [ signup_k   : 0..(SignupSamples - 1),
    segment_k  : {1},
    delay      : {start_delay_days_min},
    months     : rng_integers(min_months, max_months + 1),
    plan_k     : {1},
    active_u   : {0, 99},
    react_u    : {0, 99},
    gap        : {reactivation_gap_min},
    annual_u   : {0, 99},
    refund_pct : {refund_pct_lo},
    pay_u      : {0},
    weights    : {<<1, 1>>},
    cash_u     : {0},
    lag        : {lag_min_days} ]

SeededConfigs == {[seed |-> sd] @@ LongCfg : sd \in Seeds}

\* a generator that goes on from where the previous run of the stage left it
default_rng_carried(c, stage) ==
  IF has_sheet(StagePath(stage), stage)
  THEN [c.seed EXCEPT !.signup_k = (c.seed.signup_k + 1) % SignupSamples,
                      !.months   = (min_months + max_months) - c.seed.months,
                      !.annual_u = 99 - c.seed.annual_u]
  ELSE c.seed

\* rng = np.random.default_rng(cfg.random_seed)
default_rng(c, stage) == c.seed

\* rng.choice over a mix, for a seeded draw k
choice_seeded(mix, k) ==
  LET pos == SelectSeq(mix, LAMBDA e : e[2] > 0)
  IN  pos[IF k = 1 THEN 1 ELSE Len(pos)][1]

\* the signup day picked in the window that ends with the previous month
signup_date_seeded(t, months_back, k) ==
  LET end_month   == EndOfPrevMonth(t)
      start_month == ReplaceDay1(DateOffsetMonths(end_month, -(months_back - 1)))
  IN  IF end_month <= start_month THEN start_month
      ELSE start_month + ((end_month - start_month) * k) \div (SignupSamples - 1)

customers_seeded(c, t, sd) ==
  [i \in 1..c.num_customers |->
     [customer_id |-> i,
      signup_date |-> signup_date_seeded(t, c.months_back, sd.signup_k),
      segment     |-> choice_seeded(segment_mix, sd.segment_k)]]

period_draw_seeded(mix, bias, sd) ==
  LET plan == choice_seeded(mix, sd.plan_k)
      base == plan_prices(plan)[1]
  IN  [months |-> sd.months, plan |-> plan,
       price  |-> round2(Max(price_floor * 100,
                             (base * 100) - (base * price_noise_pct)), 100),
       active |-> sd.active_u < bias]

\* _gen_periods_for_customer with the draws of the seed: the one outcome of
\* gen_periods_for_customer whose draws are those of sd
gen_periods_seeded(row, c, t, sd) ==
  LET mix == segment_plan_mix(row.segment)
  IN  CHOOSE periods \in
        { LET start_1 == row.signup_date + sd.delay
              end_1   == computed_end(start_1, d1.months)
              first   == period_row(row.customer_id, start_1, d1, t)
              wants_second == (~still_active(d1, end_1, t))
                              /\ sd.react_u < c.pct_reactivate
          IN  IF wants_second
              THEN <<first, period_row(row.customer_id,
                                       start_2(end_1, sd.gap), d2, t)>>
              ELSE <<first>> :
          d1 \in {period_draw_seeded(mix, active_bias, sd)},
          d2 \in {period_draw_seeded(mix, active_bias_2, sd)} } : TRUE

subs_seeded(customers, c, t, sd) ==
  subs_table(Flatten([i \in 1..Len(customers) |->
                        gen_periods_seeded(customers[i], c, t, sd)]))

period_invoices_seeded(r, end_of_prev_month, sd) ==
  LET start == r.start_date
      end   == billable_end(r, end_of_prev_month)
  IN  IF end < start THEN <<>>
      ELSE IF sd.annual_u < pct_annual_prepay THEN annual_rows(r, start, end)
      ELSE monthly_rows(r, start, end)

\* the standard invoices of the seed followed by its credit memos
invoice_rows_seeded(subs, c, t, sd) ==
  CHOOSE rows \in
    { std \o [k \in 1..n_refunds(Len(std), c.refund_rate) |->
                refund_row(std[k], sd.refund_pct)] :
      std \in {Flatten([i \in 1..Len(subs) |->
                  period_invoices_seeded(subs[i], EndOfPrevMonth(t), sd)])} } : TRUE

payment_rows_seeded(invoices, c, t, sd) ==
  LET pos_inv == SelectSeq(invoices, LAMBDA r : r.amount > 0)
      neg_inv == SelectSeq(invoices, LAMBDA r : r.amount < 0)
      parts(amt) == IF sd.pay_u < c.pct_fully_paid THEN <<amt>>
                    ELSE IF sd.pay_u < c.pct_fully_paid + c.pct_partial_paid
                    THEN partial_parts(amt, sd.weights)
                    ELSE <<>>
      pos(inv) == [k \in 1..Len(parts(inv.amount)) |->
                     payment_row(inv, parts(inv.amount)[k], sd.lag, t)]
      neg(inv) == IF sd.cash_u < c.pct_cash_refund
                  THEN <<payment_row(inv, inv.amount, sd.lag, t)>>
                  ELSE <<>>
  IN  Flatten([i \in 1..Len(pos_inv) |-> pos(pos_inv[i])])
      \o Flatten([i \in 1..Len(neg_inv) |-> neg(neg_inv[i])])

----------------------------------------------------------------------------
(* The sheets the properties read *)

Table(path, sheet) == IF has_sheet(path, sheet) THEN read_excel(path, sheet) ELSE <<>>

SubsSheet == Table(cfg.subs_path, "subscriptions")

EventsSheet == Table(cfg.events_path, "events")

EventsSubs == Table(cfg.events_path, "subscriptions")

InvoicesSheet == Table(cfg.invoices_path, "invoices")

InvoicesSubs == Table(cfg.invoices_path, "subscriptions")

PaymentsSheet == Table(cfg.payments_path, "payments")

PaymentsInvoices == Table(cfg.payments_path, "invoices")

Ran(stage, result) == last.stage = stage /\ last.result = result

\* the SubscriptionPeriod invariants of one customer's rows, in start order:
\* at most two periods, end after start, each later start after the previous end
PeriodInvariants(g) ==
  /\ Len(g) <= 2
  /\ \A i \in 1..Len(g) : notna(g[i].end_date) => g[i].end_date > g[i].start_date
  /\ \A i \in 1..(Len(g) - 1) :
       notna(g[i].end_date) /\ g[i + 1].start_date > g[i].end_date

Deltas(ev) == [i \in 1..Len(ev) |-> ev[i].delta_mrr]

InvoiceOf(invoices, id) == invoices[CHOOSE i \in 1..Len(invoices) : invoices[i].invoice_id = id]

----------------------------------------------------------------------------
(* Subscription Period Allocator *)

\* C1: the periods of a customer do not overlap: a second period starts
\* strictly after the first period's computed end (start + months - 1 day),
\* which is the first period's end date, and the overlap check never raises
C1_NoOverlap ==
  /\ ~Ran("subscriptions", "AssertionError")
  /\ validate_no_overlap(SubsSheet)
  /\ \A i, j \in 1..Len(SubsSheet) :
       (i < j /\ SubsSheet[i].customer_id = SubsSheet[j].customer_id)
         => /\ \E m \in min_months..max_months :
                 SubsSheet[i].end_date
                   = DateOffsetMonths(SubsSheet[i].start_date, m) - 1
            /\ SubsSheet[j].start_date > SubsSheet[i].end_date

C1_Witness ==
  /\ Ran("subscriptions", "ok")
  /\ \E i, j \in 1..Len(SubsSheet) :
       /\ i < j
       /\ SubsSheet[i].customer_id = SubsSheet[j].customer_id
       /\ SubsSheet[j].start_date = SubsSheet[i].end_date + reactivation_gap_min

\* C2: every customer has one or two periods; a second period exists only
\* after a canceled first one; an active period is the last of its customer
C2_AtMostTwoActiveLast ==
  has_sheet(cfg.subs_path, "subscriptions") =>
    /\ \A cid \in customer_ids(Table(cfg.subs_path, "customers")) :
         Len(rows_of(SubsSheet, cid)) \in {1, 2}
    /\ \A i \in 1..Len(SubsSheet) :
         (SubsSheet[i].status = "active") <=> (SubsSheet[i].end_date = NaT)
    /\ \A i, j \in 1..Len(SubsSheet) :
         (i < j /\ SubsSheet[i].customer_id = SubsSheet[j].customer_id)
           => SubsSheet[i].status = "canceled"

C2_Witness ==
  \E i, j \in 1..Len(SubsSheet) :
    /\ i < j
    /\ SubsSheet[i].customer_id = SubsSheet[j].customer_id
    /\ SubsSheet[i].status = "canceled"
    /\ SubsSheet[j].status = "active"

----------------------------------------------------------------------------
(* Lifecycle Event Deriver *)

\* C3: for a customer whose periods satisfy the SubscriptionPeriod
\* invariants, the events, in the order of the sheet, have strictly
\* increasing dates
C3_StrictlyIncreasingDates ==
  \A cid \in customer_ids(EventsSheet) :
    PeriodInvariants(rows_of(EventsSubs, cid)) =>
      LET ev == rows_of(EventsSheet, cid)
      IN  \A i \in 1..(Len(ev) - 1) : ev[i].event_date < ev[i + 1].event_date

C3_Witness ==
  \E cid \in customer_ids(EventsSheet) :
    /\ PeriodInvariants(rows_of(EventsSubs, cid))
    /\ Len(rows_of(EventsSubs, cid)) = 2
    /\ Len(rows_of(EventsSheet, cid)) = 4

\* C4: for a customer whose periods satisfy the SubscriptionPeriod
\* invariants, no prefix of the events in sheet order has a negative sum of
\* delta_mrr, and the rolling-MRR check of the stage never fails
C4_RollingMrrNonNegative ==
  /\ (\A cid \in customer_ids(EventsSubs) : PeriodInvariants(rows_of(EventsSubs, cid)))
       => ~Ran("events", "AssertionError")
  /\ \A cid \in customer_ids(EventsSheet) :
       PeriodInvariants(rows_of(EventsSubs, cid)) =>
         LET ev == rows_of(EventsSheet, cid)
         IN  \A k \in 1..Len(ev) : SeqSum(SubSeq(Deltas(ev), 1, k)) >= 0

C4_Witness ==
  /\ Ran("events", "ok")
  /\ \E cid \in customer_ids(EventsSheet) :
       LET g == rows_of(EventsSubs, cid)
       IN  /\ PeriodInvariants(g)
           /\ Len(g) = 2
           /\ g[2].price_mrr < g[1].price_mrr
           /\ notna(g[2].end_date)

\* C5: the first period yields `new` at its start with +price, every ended
\* period yields `churn` at its end with -price, a later period starting
\* after the ended previous one yields `reactivation` at its start with
\* +price; the deltas of a customer sum to 0 when all periods have ended
\* and to the price of the active period otherwise
HasEvent(ev, etype, dt, delta) ==
  \E i \in 1..Len(ev) :
    ev[i].event_type = etype /\ ev[i].event_date = dt /\ ev[i].delta_mrr = delta

C5_EventsAndConservation ==
  \A cid \in customer_ids(EventsSheet) :
    LET g  == rows_of(EventsSubs, cid)
        ev == rows_of(EventsSheet, cid)
    IN  /\ HasEvent(ev, "new", g[1].start_date, g[1].price_mrr)
        /\ \A k \in 1..Len(g) :
             notna(g[k].end_date) => HasEvent(ev, "churn", g[k].end_date, -g[k].price_mrr)
        /\ \A k \in 2..Len(g) :
             (notna(g[k - 1].end_date) /\ g[k].start_date > g[k - 1].end_date)
               => HasEvent(ev, "reactivation", g[k].start_date, g[k].price_mrr)
        /\ SeqSum(Deltas(ev))
             = (IF \A k \in 1..Len(g) : notna(g[k].end_date) THEN 0
                ELSE g[CHOOSE k \in 1..Len(g) : g[k].end_date = NaT].price_mrr)

C5_Witness ==
  \E cid \in customer_ids(EventsSheet) :
    LET g  == rows_of(EventsSubs, cid)
        ev == rows_of(EventsSheet, cid)
    IN  /\ Len(g) = 2
        /\ g[2].end_date = NaT
        /\ g[2].price_mrr # g[1].price_mrr
        /\ Len(ev) = 3
        /\ SeqSum(Deltas(ev)) = g[2].price_mrr

----------------------------------------------------------------------------
(* Invoice Generator *)

\* C6: every invoice row is dated at its coverage start, on or before the
\* end of the month before generation, with a coverage window that is not
\* empty, ends on or before that cutoff and lies inside a period of the
\* customer; a period starting after the cutoff has no invoice row
C6_InvoicesWithinCutoff ==
  LET cutoff == EndOfPrevMonth(today)
  IN  /\ \A i \in 1..Len(InvoicesSheet) :
           LET inv == InvoicesSheet[i]
           IN  /\ inv.invoice_date <= cutoff
               /\ inv.period_start <= inv.period_end
               /\ inv.period_end <= cutoff
               /\ inv.invoice_date = inv.period_start
               /\ \E k \in 1..Len(InvoicesSubs) :
                    LET r == InvoicesSubs[k]
                    IN  /\ r.customer_id = inv.customer_id
                        /\ r.start_date <= inv.period_start
                        /\ notna(r.end_date) => inv.period_end <= r.end_date
      /\ \A k \in 1..Len(InvoicesSubs) :
           InvoicesSubs[k].start_date > cutoff =>
             \A i \in 1..Len(InvoicesSheet) :
               InvoicesSheet[i].customer_id = InvoicesSubs[k].customer_id
                 => InvoicesSheet[i].period_end < InvoicesSubs[k].start_date
      /\ Ran("invoices", "KeyError") =>
           \A k \in 1..Len(InvoicesSubs) : InvoicesSubs[k].start_date > cutoff

C6_Witness ==
  /\ Ran("invoices", "ok")
  /\ \E i \in 1..Len(InvoicesSheet) : InvoicesSheet[i].is_refund
  /\ \E i \in 1..Len(InvoicesSheet) :
       InvoicesSheet[i].period_end = EndOfPrevMonth(today)
  /\ \E k \in 1..Len(InvoicesSubs) :
       /\ notna(InvoicesSubs[k].end_date)
       /\ InvoicesSubs[k].end_date > EndOfPrevMonth(today)

\* C7: no invoice row has amount 0; a standard row has amount > 0 and a
\* refund row has amount < 0, subscription prices being at least 5.00
C7_AmountSigns ==
  /\ \A k \in 1..Len(InvoicesSubs) : InvoicesSubs[k].price_mrr >= price_floor
  /\ \A i \in 1..Len(InvoicesSheet) :
       /\ InvoicesSheet[i].amount # 0
       /\ InvoicesSheet[i].is_refund => InvoicesSheet[i].amount < 0
       /\ ~InvoicesSheet[i].is_refund => InvoicesSheet[i].amount > 0

C7_Witness ==
  \E i, j \in 1..Len(InvoicesSheet) :
    /\ InvoicesSheet[i].is_refund
    /\ ~InvoicesSheet[j].is_refund
    /\ InvoicesSheet[i].invoice_date = InvoicesSheet[j].invoice_date
    /\ InvoicesSheet[i].amount * 20 = -InvoicesSheet[j].amount

----------------------------------------------------------------------------
(* Payment Allocator *)

\* C8: the payments of a positive invoice are none, or one payment of the
\* invoice amount, or two or three payments summing exactly to the invoice
\* amount; their sum never exceeds the amount plus one cent
C8_PaymentsSumToAmount ==
  \A i \in 1..Len(PaymentsInvoices) :
    LET inv == PaymentsInvoices[i]
        ps  == paid_amounts(PaymentsSheet, inv.invoice_id)
    IN  inv.amount > 0 =>
          /\ \/ Len(ps) = 0
             \/ Len(ps) = 1 /\ ps[1] = inv.amount
             \/ Len(ps) \in {2, 3} /\ SeqSum(ps) = inv.amount
          /\ SeqSum(ps) <= inv.amount + 1

C8_Witness ==
  \E i \in 1..Len(PaymentsInvoices) :
    LET inv == PaymentsInvoices[i]
        ps  == paid_amounts(PaymentsSheet, inv.invoice_id)
    IN  /\ inv.amount > 0
        /\ Len(ps) = 3
        /\ (inv.amount % 3) # 0
        /\ ps[1] = ps[2]
        /\ ps[3] # ps[1]

\* C9: every payment, of a positive invoice or of a credit memo, is dated
\* min(invoice_date + lag, today) for a lag within the configured range,
\* hence on or after the invoice date and on or before today
C9_PaymentDateRange ==
  \A i \in 1..Len(PaymentsSheet) :
    LET p   == PaymentsSheet[i]
        inv == InvoiceOf(PaymentsInvoices, p.invoice_id)
    IN  /\ inv.invoice_date <= p.payment_date
        /\ p.payment_date <= today
        /\ \E lag \in lag_min_days..lag_max_days :
             p.payment_date = Min(inv.invoice_date + lag, today)

C9_Witness ==
  \E i, j \in 1..Len(PaymentsSheet) :
    /\ PaymentsSheet[i].amount < 0
    /\ PaymentsSheet[j].amount > 0
    /\ PaymentsSheet[j].payment_date < today

\* C10 as stated: a payment is never dated before the invoice's issue date
\* plus the minimum lag, and never after today
C10_Original ==
  \A i \in 1..Len(PaymentsSheet) :
    LET p   == PaymentsSheet[i]
        inv == InvoiceOf(PaymentsInvoices, p.invoice_id)
    IN  /\ p.payment_date >= inv.invoice_date + lag_min_days
        /\ p.payment_date <= today

\* C10 amended: a payment is never dated after today, and it is dated
\* before the invoice's issue date plus the minimum lag only when that day
\* is after today, in which case it is dated today
C10_MinLagUnlessClamped ==
  \A i \in 1..Len(PaymentsSheet) :
    LET p   == PaymentsSheet[i]
        inv == InvoiceOf(PaymentsInvoices, p.invoice_id)
    IN  /\ p.payment_date <= today
        /\ p.payment_date < inv.invoice_date + lag_min_days
             => (p.payment_date = today /\ inv.invoice_date + lag_min_days > today)

C10_Witness ==
  \E i \in 1..Len(PaymentsSheet) :
    LET p   == PaymentsSheet[i]
        inv == InvoiceOf(PaymentsInvoices, p.invoice_id)
    IN  /\ p.payment_date = today
        /\ p.payment_date < inv.invoice_date + lag_min_days
        /\ p.amount > 0

----------------------------------------------------------------------------
(* Stage runs and the container *)

\* the acceptance checks of a stage, on its sheet in container f
ChecksPass(stage, f) ==
  LET p   == StagePath(stage)
      tbl == f[p].sheets[stage].rows
      up(s) == f[p].sheets[s].rows
  IN  CASE stage = "customers"     -> customers_checks(cfg, tbl, today)
        [] stage = "subscriptions" -> subs_checks(tbl, up("customers"))
        [] stage = "events"        -> events_checks(tbl, up("customers"))
        [] stage = "invoices"      -> invoices_checks(tbl, up("customers"))
        [] stage = "payments"      -> payments_checks(tbl, up("invoices"), today)

\* the primary key column of a stage's table
KeyOf(stage, row) ==
  CASE stage = "customers"     -> row.customer_id
    [] stage = "subscriptions" -> row.subscription_id
    [] stage = "events"        -> row.event_id
    [] stage = "invoices"      -> row.invoice_id
    [] stage = "payments"      -> row.payment_id

\* C11: a run that raises leaves every container as it was; a container
\* changes only in a run that ends normally, that found its workbook and its
\* upstream sheets present and not empty, and whose written table passes
\* every acceptance check of the stage
C11_AllOrNothing ==
  [][ /\ last'.result # "ok" => files' = files
      /\ files' # files =>
           LET stage == last'.stage
               p     == StagePath(stage)
           IN  /\ last'.result = "ok"
               /\ stage # "customers" => path_exists(p)
               /\ \A u \in Upstream(stage) :
                    has_sheet(p, u) /\ read_excel(p, u) # <<>>
               /\ files'[p].sheets[stage].present
               /\ ChecksPass(stage, files') ]_vars

C11_Witness ==
  /\ Ran("payments", "ValueError")
  /\ has_sheet(cfg.payments_path, "customers")
  /\ ~has_sheet(cfg.payments_path, "invoices")

\* C12: a run that ends normally leaves every other sheet of every
\* container as it was; its own sheet then holds exactly the table of this
\* run (keys 1..n, each once), also when the sheet existed before the run
C12_FrameAndReplace ==
  [][ last'.result = "ok" =>
        LET stage == last'.stage
            p     == StagePath(stage)
            tbl   == files'[p].sheets[stage].rows
        IN  /\ \A q \in Paths, s \in SheetNames :
                 (q # p \/ s # stage) => files'[q].sheets[s] = files[q].sheets[s]
            /\ \A q \in Paths \ {p} : files'[q].exists = files[q].exists
            /\ files'[p].exists /\ files'[p].sheets[stage].present
            /\ \A i \in 1..Len(tbl) : KeyOf(stage, tbl[i]) = i
            /\ stage = "customers" => Len(tbl) = cfg.num_customers ]_vars

C12_Witness ==
  /\ Ran("invoices", "ok")
  /\ last.replaced
  /\ has_sheet(cfg.invoices_path, "events")
  /\ has_sheet(cfg.invoices_path, "subscriptions")

----------------------------------------------------------------------------
(* Seeded runs on different days *)

\* the table a seeded run of a stage builds from the sheets of container f
StageTable(stage, c, f, t, sd) ==
  LET up(s) == f[StagePath(stage)].sheets[s].rows
  IN  CASE stage = "customers"     -> customers_seeded(c, t, sd)
        [] stage = "subscriptions" -> subs_seeded(up("customers"), c, t, sd)
        [] stage = "events"        -> events_table(up("subscriptions"))
        [] stage = "invoices"      ->
             invoices_table(invoice_rows_seeded(up("subscriptions"), c, t, sd))
        [] stage = "payments"      ->
             payments_table(payment_rows_seeded(up("invoices"), c, t, sd))

\* the sheet of a seeded run, stamped with the day of the run
Stamped(f, stage, t) ==
  [f EXCEPT ![StagePath(stage)].sheets[stage] =
     [present |-> TRUE, rows |-> @.rows, written_on |-> t]]

DoneSeeded(stage, newFiles) ==
  /\ files' = Stamped(newFiles, stage, today)
  /\ last' = [stage |-> stage, result |-> "ok",
              replaced |-> has_sheet(StagePath(stage), stage),
              same_day |-> /\ has_sheet(StagePath(stage), stage)
                           /\ files[StagePath(stage)].sheets[stage].written_on = today]
  /\ UNCHANGED <<today, cfg>>

\* main() of a stage with the generator seeded from the configuration
main_seeded(stage) ==
  LET p == StagePath(stage)
  IN  IF stage # "customers" /\ ~path_exists(p)
      THEN Raise(stage, "FileNotFoundError")
      ELSE IF \E u \in Upstream(stage) : ~has_sheet(p, u) \/ read_excel(p, u) = <<>>
      THEN Raise(stage, "ValueError")
      ELSE \E tbl \in {StageTable(stage, cfg, files, today, default_rng(cfg, stage))} :
           \E new \in {IF stage = "customers"
                       THEN write_or_update_sheet(tbl, p, stage)
                       ELSE replace_sheet(p, stage, tbl)} :
             IF tbl = <<>> THEN Raise(stage, "KeyError")
             ELSE IF ChecksPass(stage, new) THEN DoneSeeded(stage, new)
             ELSE Raise(stage, "AssertionError")

\* a stage is run again only while nothing computed from its sheet is written
seeded_customers ==
  /\ Unconsumed("customers")
  /\ main_seeded("customers")

seeded_subscriptions ==
  /\ Unconsumed("subscriptions")
  /\ main_seeded("subscriptions")

seeded_events ==
  /\ Unconsumed("events")
  /\ main_seeded("events")

seeded_invoices ==
  /\ Unconsumed("invoices")
  /\ main_seeded("invoices")

seeded_payments ==
  /\ Unconsumed("payments")
  /\ main_seeded("payments")

\* pd.Timestamp.today() of a later run: the calendar has moved on
Tick ==
  /\ \E t \in TodayDraws : t > today /\ today' = t
  /\ last' = [stage |-> "clock", result |-> "none", replaced |-> FALSE]
  /\ UNCHANGED <<cfg, files>>

InitSeeded ==
  /\ today \in TodayDraws
  /\ cfg \in SeededConfigs
  /\ files = [p \in Paths |-> NoFile]
  /\ last = [stage |-> "none", result |-> "none", replaced |-> FALSE]

NextSeeded ==
  \/ seeded_customers
  \/ seeded_subscriptions
  \/ seeded_events
  \/ seeded_invoices
  \/ seeded_payments
  \/ Tick

SpecSeeded == InitSeeded /\ [][NextSeeded]_vars

C14_ActiveIffDrawAndFuture ==
  has_sheet(cfg.subs_path, "subscriptions") =>
    LET t == files[cfg.subs_path].sheets["subscriptions"].written_on
    IN  \A cid \in customer_ids(SubsSheet) :
          LET g == rows_of(SubsSheet, cid)
          IN  \A i \in 1..Len(g) :
                LET bias     == IF i = 1 THEN active_bias ELSE active_bias_2
                    favoured == cfg.seed.active_u < bias
                    end      == DateOffsetMonths(g[i].start_date, cfg.seed.months) - 1
                IN  /\ (g[i].status = "active") <=> (favoured /\ end > t)
                    /\ (g[i].status = "active") => g[i].end_date = NaT
                    /\ (g[i].status # "active")
                         => (g[i].status = "canceled" /\ g[i].end_date = end)
                    /\ end <= t => g[i].status = "canceled"

C14_Witness ==
  /\ has_sheet(cfg.subs_path, "subscriptions")
  /\ cfg.seed.active_u < active_bias
  /\ Len(SubsSheet) = 2
  /\ SubsSheet[1].status = "canceled"
  /\ SubsSheet[2].status = "active"

----------------------------------------------------------------------------
(* Invoice cadences *)

\* the calendar months <<year, month>> that have a day in start..end
MonthsIntersecting(start, end) ==
  {ym \in (Year(start)..Year(end)) \X (1..12) :
     /\ ToOrd(ym[1], ym[2], 1) <= end
     /\ ToOrd(ym[1], ym[2], DaysInMonth(ym[1], ym[2])) >= start}

\* rows is one full-price invoice per calendar month of start..end, each
\* covering the days of its month that lie in start..end and dated at the
\* first of them; the windows follow one another from start to end
MonthlyShape(rows, price, start, end) ==
  /\ Len(rows) = Cardinality(MonthsIntersecting(start, end))
  /\ \A ym \in MonthsIntersecting(start, end) :
       \E k \in 1..Len(rows) :
         /\ rows[k].period_start = Max(start, ToOrd(ym[1], ym[2], 1))
         /\ rows[k].period_end
              = Min(end, ToOrd(ym[1], ym[2], DaysInMonth(ym[1], ym[2])))
  /\ \A k \in 1..Len(rows) :
       /\ rows[k].invoice_date = rows[k].period_start
       /\ rows[k].amount = price
       /\ ~rows[k].is_refund
  /\ rows # <<>> => rows[1].period_start = start /\ rows[Len(rows)].period_end = end
  /\ \A k \in 1..(Len(rows) - 1) : rows[k + 1].period_start = rows[k].period_end + 1

\* the standard invoices of the sheet that bill period r, without their ids
StdInvoicesOf(r) ==
  LET end == billable_end(r, EndOfPrevMonth(today))
  IN  { [f \in DOMAIN InvoicesSheet[i] \ {"invoice_id"} |-> InvoicesSheet[i][f]] :
          i \in { j \in 1..Len(InvoicesSheet) :
                    /\ InvoicesSheet[j].customer_id = r.customer_id
                    /\ ~InvoicesSheet[j].is_refund
                    /\ r.start_date <= InvoicesSheet[j].period_start
                    /\ InvoicesSheet[j].period_start <= end } }

Range(seq) == {seq[i] : i \in 1..Len(seq)}

\* C15: under monthly cadence a period with billable window start..end gets
\* one invoice per calendar month that intersects the window, covering the
\* intersection, dated at the coverage start, for the full monthly price;
\* the windows are disjoint and cover the billable window; the invoices of
\* a period in the sheet are these rows unless they are the annual invoice
C15_MonthlyCadence ==
  /\ has_sheet(cfg.invoices_path, "invoices") =>
       \A k \in 1..Len(InvoicesSubs) :
         LET r     == InvoicesSubs[k]
             start == r.start_date
             end   == billable_end(r, EndOfPrevMonth(today))
         IN  end >= start =>
               /\ MonthlyShape(monthly_rows(r, start, end), r.price_mrr, start, end)
               /\ StdInvoicesOf(r) # Range(annual_rows(r, start, end))
                    => StdInvoicesOf(r) = Range(monthly_rows(r, start, end))
  /\ LET r == [customer_id |-> 1, price_mrr |-> 5000]
         rows == monthly_rows(r, ToOrd(2024, 2, 1), ToOrd(2024, 4, 30))
     IN  /\ Len(rows) = 3
         /\ [i \in 1..3 |-> rows[i].invoice_date]
              = <<ToOrd(2024, 2, 1), ToOrd(2024, 3, 1), ToOrd(2024, 4, 1)>>
         /\ \A i \in 1..3 : rows[i].amount = 5000

C15_Witness ==
  /\ Ran("invoices", "ok")
  /\ \E k \in 1..Len(InvoicesSubs) :
       LET r     == InvoicesSubs[k]
           start == r.start_date
           end   == billable_end(r, EndOfPrevMonth(today))
       IN  /\ end >= start
           /\ Day(start) # 1
           /\ notna(r.end_date) /\ end = r.end_date
           /\ Len(monthly_rows(r, start, end)) >= 3
           /\ StdInvoicesOf(r) = Range(monthly_rows(r, start, end))

\* rows is the one invoice of an annual prepay: dated at start, covering
\* start .. min(start + 12 months - 1 day, end), for the monthly price times
\* the number of calendar months from the month of the coverage start to the
\* month of the coverage end, both counted
AnnualShape(rows, price, start, end) ==
  /\ Len(rows) = 1
  /\ rows[1].invoice_date = start
  /\ rows[1].period_start = start
  /\ rows[1].period_end = Min(DateOffsetMonths(start, 12) - 1, end)
  /\ ~rows[1].is_refund
  /\ Cardinality(MonthsIntersecting(start, rows[1].period_end)) >= 1
  /\ rows[1].amount
       = price * Cardinality(MonthsIntersecting(start, rows[1].period_end))

\* C16: under annual cadence a period with a non-empty billable window gets
\* exactly one standard invoice of that shape; the invoices of a period in
\* the sheet are this row unless they are the monthly invoices
C16_AnnualCadence ==
  has_sheet(cfg.invoices_path, "invoices") =>
    \A k \in 1..Len(InvoicesSubs) :
      LET r     == InvoicesSubs[k]
          start == r.start_date
          end   == billable_end(r, EndOfPrevMonth(today))
      IN  end >= start =>
            /\ AnnualShape(annual_rows(r, start, end), r.price_mrr, start, end)
            /\ StdInvoicesOf(r) # Range(monthly_rows(r, start, end))
                 => StdInvoicesOf(r) = Range(annual_rows(r, start, end))

C16_Witness ==
  /\ Ran("invoices", "ok")
  /\ \E k \in 1..Len(InvoicesSubs) :
       LET r     == InvoicesSubs[k]
           start == r.start_date
           end   == billable_end(r, EndOfPrevMonth(today))
       IN  /\ end > DateOffsetMonths(start, 12) - 1
           /\ StdInvoicesOf(r) = Range(annual_rows(r, start, end))
           /\ StdInvoicesOf(r) # Range(monthly_rows(r, start, end))

\* the months of service in the window a..b: the least n such that n
\* months from a reach past b
ServiceMonths(a, b) ==
  CHOOSE n \in 1..13 :
    /\ DateOffsetMonths(a, n) - 1 >= b
    /\ \A m \in 1..(n - 1) : DateOffsetMonths(a, m) - 1 < b

\* C20: an annual invoice of the sheet bills at most 12 monthly prices of
\* its period, and as many prices as its coverage window has months of
\* service
C20_AnnualAtMostTwelve ==
  \A k \in 1..Len(InvoicesSubs) :
    LET r     == InvoicesSubs[k]
        start == r.start_date
        end   == billable_end(r, EndOfPrevMonth(today))
    IN  (/\ has_sheet(cfg.invoices_path, "invoices")
         /\ end >= start
         /\ StdInvoicesOf(r) = Range(annual_rows(r, start, end)))
        => \A inv \in StdInvoicesOf(r) :
             /\ inv.amount <= 12 * r.price_mrr
             /\ inv.amount
                  = r.price_mrr * ServiceMonths(inv.period_start, inv.period_end)

----------------------------------------------------------------------------
(* Weight mixes of the customer generator *)

\* segment mixes with each shipped weight kept, zeroed or negated
MixDraws ==
  { [i \in 1..Len(segment_mix) |-> <<segment_mix[i][1], segment_mix[i][2] * sgn[i]>>] :
      sgn \in [1..Len(segment_mix) -> {-1, 0, 1}] }

MixConfigs == {[segment_mix |-> m] @@ LongCfg : m \in MixDraws}

InitMix ==
  /\ today \in TodayDraws
  /\ cfg \in MixConfigs
  /\ files = [p \in Paths |-> NoFile]
  /\ last = [stage |-> "none", result |-> "none", replaced |-> FALSE]

NextMix == main_customers

SpecMix == InitMix /\ [][NextMix]_vars

\* C18: with a segment mix whose weights sum to zero or less, a run of the
\* customer generator ends in a configuration error before any draw is
\* made, and no customers sheet is written
C18_NonPositiveMixRejected ==
  mix_sum(MixOf(cfg)) <= 0 =>
    /\ ~has_sheet(cfg.customers_path, "customers")
    /\ last.stage = "customers" => (last.result = "ValueError" /\ ~last.drawn)

----------------------------------------------------------------------------
(* The event deriver on a subscriptions sheet edited by hand: 03_events.py *)
(* reads whatever periods the workbook holds                               *)

EditDates == {ToOrd(2025, m, 1) : m \in 1..4}

EditedPeriods ==
  { [customer_id |-> 1, start_date |-> s, end_date |-> e, plan |-> pl,
     price_mrr |-> pr, status |-> status_of(e)] :
      s  \in EditDates,
      e  \in {NaT} \cup EditDates,
      pl \in {"Starter", "Pro"},
      pr \in {plan_prices("Starter")[1], plan_prices("Pro")[1]} }

EditedSubs ==
  { with_ids(<<a, b>>, "subscription_id") :
      a \in {x \in EditedPeriods : x.end_date = NaT \/ x.end_date > x.start_date},
      b \in {x \in EditedPeriods : x.end_date = NaT \/ x.end_date > x.start_date} }

EditedWorkbook(subs) ==
  [EmptyWorkbook EXCEPT
     !.sheets["customers"] =
        Sheet(<<[customer_id |-> 1, signup_date |-> ToOrd(2025, 1, 1),
                 segment |-> "SMB"]>>),
     !.sheets["subscriptions"] = Sheet(subs)]

InitEdited ==
  /\ today \in TodayDraws
  /\ cfg = LongCfg
  /\ \E subs \in EditedSubs :
       files = [p \in Paths |->
                  IF p = LongCfg.events_path THEN EditedWorkbook(subs) ELSE NoFile]
  /\ last = [stage |-> "none", result |-> "none", replaced |-> FALSE]

NextEdited == main_events

SpecEdited == InitEdited /\ [][NextEdited]_vars

\* the periods of a customer in start order, as the deriver walks them
InStartOrder(g) == sort_values([i \in 1..Len(g) |-> << <<g[i].start_date>>, g[i] >>])

\* the events of ev that open the period starting on day dt after another
StartSide(ev, dt) ==
  { [f \in {"event_type", "delta_mrr", "plan_from", "plan_to"} |-> ev[k][f]] :
      k \in { j \in 1..Len(ev) :
                /\ ev[j].event_date = dt
                /\ ev[j].event_type \in {"reactivation", "upgrade", "downgrade"} } }

WithoutId(rows, id) ==
  { [f \in DOMAIN rows[i] \ {id} |-> rows[i][f]] : i \in 1..Len(rows) }

\* C17: for a period after the first that does not start after an ended
\* previous period (the previous period has no end date, or the start is on
\* or before the previous end), the deriver emits at the start one upgrade
\* with delta = price - previous price when the price is higher, one
\* downgrade with that negative delta when it is lower, and no start-side
\* event when the prices are equal, whatever the plans; the events sheet,
\* when the stage writes it, holds exactly the deriver's events
C17_UpgradeDowngradeBranch ==
  /\ \A cid \in customer_ids(EventsSubs) :
       LET s  == InStartOrder(rows_of(EventsSubs, cid))
           ev == build_events_for_customer(rows_of(EventsSubs, cid))
       IN  \A i \in 2..Len(s) :
             LET prev  == s[i - 1]
                 cur   == s[i]
                 delta == cur.price_mrr - prev.price_mrr
             IN  ~(notna(prev.end_date) /\ cur.start_date > prev.end_date) =>
                   /\ delta > 0 =>
                        StartSide(ev, cur.start_date)
                          = {[event_type |-> "upgrade", delta_mrr |-> delta,
                              plan_from |-> prev.plan, plan_to |-> cur.plan]}
                   /\ delta < 0 =>
                        StartSide(ev, cur.start_date)
                          = {[event_type |-> "downgrade", delta_mrr |-> delta,
                              plan_from |-> prev.plan, plan_to |-> cur.plan]}
                   /\ delta = 0 => StartSide(ev, cur.start_date) = {}
  /\ Ran("events", "ok") =>
       \A cid \in customer_ids(EventsSubs) :
         WithoutId(rows_of(EventsSheet, cid), "event_id")
           = Range(build_events_for_customer(rows_of(EventsSubs, cid)))

C17_Witness ==
  /\ Ran("events", "ok")
  /\ Len(EventsSubs) = 2
  /\ EventsSubs[1].end_date = NaT
  /\ EventsSubs[2].start_date > EventsSubs[1].start_date
  /\ EventsSubs[2].price_mrr = EventsSubs[1].price_mrr
  /\ EventsSubs[2].plan # EventsSubs[1].plan
  /\ Len(EventsSheet) = 1

\* C19: every second period the allocator writes starts at least the
\* minimum gap after the end of an ended first period, the deriver books it
\* as a reactivation, and an events sheet derived from a subscriptions sheet
\* of the allocator holds only new, churn and reactivation events
C19_OnlyNewChurnReactivation ==
  /\ \A i \in 1..Len(EventsSheet) :
       EventsSheet[i].event_type \in {"new", "churn", "reactivation"}
  /\ \A cid \in customer_ids(SubsSheet) :
       LET s == InStartOrder(rows_of(SubsSheet, cid))
       IN  \A i \in 2..Len(s) :
             /\ notna(s[i - 1].end_date)
             /\ s[i].start_date >= s[i - 1].end_date + reactivation_gap_min
             /\ StartSide(build_events_for_customer(rows_of(SubsSheet, cid)),
                          s[i].start_date)
                  = {[event_type |-> "reactivation", delta_mrr |-> s[i].price_mrr,
                      plan_from |-> None, plan_to |-> s[i].plan]}

C19_Witness ==
  /\ Ran("events", "ok")
  /\ Len(EventsSubs) = 2
  /\ EventsSubs[2].price_mrr > EventsSubs[1].price_mrr
  /\ \E i \in 1..Len(EventsSheet) : EventsSheet[i].event_type = "reactivation"

----------------------------------------------------------------------------
(* Partial payments on a wide grid of weights *)

\* the shares a weight is sampled from: 0.0, weights of the same size, and
\* one weight far larger than another
SplitShares == (0..MaxWeight) \cup {MaxWeight * plan_prices("Starter")[1]}

\* every positive invoice is paid in 2 or 3 installments
SplitCfg ==
  [pct_fully_paid |-> 0, pct_partial_paid |-> 100, weight_shares |-> SplitShares]
    @@ LongCfg

\* invoice amounts in cents: a few cents, and a monthly price
SplitAmounts == (1..5) \cup {plan_prices("Starter")[1]}

\* a workbook whose invoices sheet holds one positive invoice
SplitWorkbook(amt, t) ==
  [EmptyWorkbook EXCEPT
     !.sheets["invoices"] =
        Sheet(invoices_table(
          <<[customer_id |-> 1, invoice_date |-> ToOrd(2025, 1, 1),
             amount |-> amt, is_refund |-> FALSE,
             period_start |-> ToOrd(2025, 1, 1),
             period_end |-> ToOrd(2025, 1, 31)]>>))]

InitSplit ==
  /\ today \in TodayDraws
  /\ cfg = SplitCfg
  /\ \E amt \in SplitAmounts :
       files = [p \in Paths |->
                  IF p = SplitCfg.payments_path THEN SplitWorkbook(amt, today)
                  ELSE NoFile]
  /\ last = [stage |-> "none", result |-> "none", replaced |-> FALSE]

NextSplit == main_payments

SpecSplit == InitSplit /\ [][NextSplit]_vars

\* C21: every payment written for a positive invoice has an amount greater
\* than zero, also when the invoice is paid in 2 or 3 installments
C21_InstallmentsPositive ==
  \A i \in 1..Len(PaymentsSheet) :
    (\E k \in 1..Len(PaymentsInvoices) :
        /\ PaymentsInvoices[k].invoice_id = PaymentsSheet[i].invoice_id
        /\ PaymentsInvoices[k].amount > 0)
      => PaymentsSheet[i].amount > 0

\* C22: with the shipped defaults, a stage run after the stages it reads
\* from have written their sheets finds its workbook and those sheets, and
\* once all five sheets are written they are in one workbook
C22_DefaultsShareContainer ==
  cfg.name = "shipped" =>
    /\ ( /\ last.stage \in Stages
         /\ \A u \in Upstream(last.stage) : has_sheet(StagePath(u), u) )
         => last.result \notin {"FileNotFoundError", "ValueError"}
    /\ (\A s \in Stages : has_sheet(StagePath(s), s))
         => \A s \in Stages : StagePath(s) = StagePath("customers")

====
